---- MODULE Spec2Model ----
(***************************************************************************)
(* Content-filter recommendations of simple_reccomendations.py:            *)
(* group_data_by_unique_identifiers builds a dict-in-dict tree over the    *)
(* query result, content_filter_recommendations_from_grouped_data walks it *)
(* recursively and fills short recommendations, and                        *)
(* content_filter_result_to_useful_SQL_dataset flattens the result.        *)
(*                                                                         *)
(* A row of the query result is a tuple <<id, category, brand>>; Python    *)
(* index i of a row is position i + 1 here.  A dict is a sequence of       *)
(* [key, value] pairs in insertion order (the order Python iterates in).   *)
(* The recursion of the recommender is an explicit stack of frames; every  *)
(* random.choice / random.sample is a nondeterministic choice.             *)
(***************************************************************************)
EXTENDS Integers, Sequences, FiniteSets, Bags, TLC

\* ------------------------------------------------------------ bounds
MaxLen == 2
MaxDepth == 2
MaxAmount == 4

\* ------------------------------------------------- program constants
\* recommendation_amount: int = 4
DefaultRecommendationAmount == 4
\* SELECT id, category, brand
NumFields == 3

\* ------------------------------------------------------------ helpers
Range(s) == {s[i] : i \in DOMAIN s}

Min(a, b) == IF a < b THEN a ELSE b

\* entry[i] of a Python tuple
Field(entry, i) == entry[i + 1]

\* the multiset of the elements of a list
BagOf(s) == [x \in Range(s) |-> Cardinality({i \in DOMAIN s : s[i] = x})]

RECURSIVE Concat(_)
\* the concatenation of a list of lists
Concat(ss) == IF ss = <<>> THEN <<>> ELSE Head(ss) \o Concat(Tail(ss))

\* [r] * n
Repeat(r, n) == [i \in 1..n |-> r]

\* ------------------------------------------------------------- inputs
Categories == {"A", "B"}
Brands == {"X"}

\* query results of up to MaxLen rows; the id of a row is its position, and
\* the rows differ in category only
SmallCatalogs ==
    UNION {{[i \in 1..n |-> <<i, a[i][1], a[i][2]>>] : a \in [1..n -> Categories \X Brands]}
           : n \in 0..MaxLen}

\* index lists of up to MaxDepth attribute indexes; NumFields is out of range
\* for a row
Paths == UNION {[1..d -> 1..NumFields] : d \in 0..MaxDepth}

\* a query result grouped by category, then id (rows of a list of tuples may
\* repeat): category "A" holds as many full ids (rows repeated
\* DefaultRecommendationAmount times) as a nested call needs to borrow from and
\* one short id, category "B" one short id
BorrowCatalog ==
    Concat([i \in 1..DefaultRecommendationAmount |->
               Repeat(<<i, "A", "X">>, DefaultRecommendationAmount)])
    \o Repeat(<<DefaultRecommendationAmount + 1, "A", "Y">>, DefaultRecommendationAmount - 2)
    \o Repeat(<<DefaultRecommendationAmount + 2, "B", "Y">>, DefaultRecommendationAmount - 1)

\* one attribute permutation with exactly as many products as the default asks
FullCatalog == [i \in 1..DefaultRecommendationAmount |-> <<i, "A", "X">>]

Inputs ==
    [products : SmallCatalogs, index_list : Paths]
    \cup {[products |-> BorrowCatalog, index_list |-> <<1, 0>>],
          [products |-> FullCatalog, index_list |-> <<1, 2>>]}

\* ------------------------------------------------------------ grouper
\* lines 83-84 and 87 alone: an entry whose identifier is already a key is
\* not appended to its list
AddEntryNewKeysOnly(unique_identifiers, entry, index) ==
    IF \E j \in DOMAIN unique_identifiers : unique_identifiers[j].key = Field(entry, index)
    THEN unique_identifiers
    ELSE Append(unique_identifiers, [key |-> Field(entry, index), value |-> <<entry>>])

\* lines 83-87: one iteration of the loop over the dataset
AddEntry(unique_identifiers, entry, index) ==
    LET identifier == Field(entry, index) IN
    IF \E j \in DOMAIN unique_identifiers : unique_identifiers[j].key = identifier
    THEN [j \in DOMAIN unique_identifiers |->
             IF unique_identifiers[j].key = identifier
             THEN [unique_identifiers[j] EXCEPT !.value = Append(@, entry)]
             ELSE unique_identifiers[j]]
    ELSE Append(unique_identifiers, [key |-> identifier, value |-> <<entry>>])

RECURSIVE Buckets(_, _, _, _)
\* lines 81-87: unique_identifiers after the loop has run from dataset[i] on
Buckets(unique_identifiers, dataset, i, index) ==
    IF i > Len(dataset)
    THEN unique_identifiers
    ELSE Buckets(AddEntry(unique_identifiers, dataset[i], index), dataset, i + 1, index)

\* arguments checked before any grouping: an empty dataset raises as well
GroupRaisesUpFront(dataset, path) ==
    IF Len(dataset) = 0 THEN TRUE
    ELSE IF Len(path) = 0 THEN TRUE
    ELSE \E p \in DOMAIN path : path[p] >= NumFields

RECURSIVE GroupRaises(_, _)
\* entry[index_list[0]] raises IndexError (lines 83, 90)
GroupRaises(dataset, path) ==
    IF Len(dataset) = 0 THEN FALSE
    ELSE IF Len(path) = 0 THEN TRUE
    ELSE IF path[1] >= NumFields THEN TRUE
    ELSE IF Len(path) = 1 THEN FALSE
    ELSE LET buckets == Buckets(<<>>, dataset, 1, path[1]) IN
         \E j \in DOMAIN buckets : GroupRaises(buckets[j].value, Tail(path))

RECURSIVE group_data_by_unique_identifiers(_, _)
\* lines 81-91, for arguments that do not raise
group_data_by_unique_identifiers(dataset, path) ==
    IF Len(dataset) = 0
    THEN [kind |-> "dict", items |-> <<>>]
    ELSE LET buckets == Buckets(<<>>, dataset, 1, path[1]) IN
         [kind |-> "dict",
          items |-> [j \in DOMAIN buckets |->
                        [key |-> buckets[j].key,
                         value |-> IF Len(path) > 1
                                   THEN group_data_by_unique_identifiers(buckets[j].value, Tail(path))
                                   ELSE [kind |-> "list", items |-> buckets[j].value]]]]

RECURSIVE LeavesOf(_)
\* the lists at the bottom of a grouped structure, in iteration order
LeavesOf(data) ==
    IF data.kind = "list"
    THEN <<data.items>>
    ELSE Concat([j \in DOMAIN data.items |-> LeavesOf(data.items[j].value)])

\* -------------------------------------------------------- recommender
\* a call of content_filter_recommendations_from_grouped_data on a dict
NewFrame(data, level, amount) ==
    [data |-> data,
     current_level |-> level,
     recommendation_amount |-> amount,
     dataset |-> <<>>,
     incomplete_indexes |-> <<>>,
     child |-> 1,
     pos |-> 1,
     able_to_complete_datapoints |-> TRUE,
     pc |-> IF Len(data.items) = 0 THEN "fallback" ELSE "children"]

\* line 115: the recursive call passes no recommendation_amount, so the callee
\* runs with the default whatever the caller was given
PassedAmount(amount) == DefaultRecommendationAmount

Injections(m, n) ==
    {f \in [1..m -> 1..n] : \A i, j \in 1..m : i # j => f[i] # f[j]}

\* random.sample(data, m): m elements at distinct positions, in selection order
Sample(data, m) == {[i \in 1..m |-> data[f[i]]] : f \in Injections(m, Len(data))}

\* lines 136-139: what a call on a list may return
LeafResult(data, amount) ==
    IF Len(data) < amount
    THEN {<<(<<s>>), (<<0>>)>> : s \in Sample(data, Min(amount, Len(data)))}
    ELSE {<<(<<s>>), (<<>>)>> : s \in Sample(data, amount)}

\* line 116 without the offset
ShiftNone(incomplete_data, current_index_in_dataset) == incomplete_data

\* line 116: [x + current_index_in_dataset for x in incomplete_data]
Shift(incomplete_data, current_index_in_dataset) ==
    [i \in DOMAIN incomplete_data |-> incomplete_data[i] + current_index_in_dataset]

\* lines 116-119: the caller takes one child's result; current_index_in_dataset
\* is len(dataset) throughout
Merge(f, result_from_one_layer_deeper, incomplete_data) ==
    [f EXCEPT !.incomplete_indexes = @ \o Shift(incomplete_data, Len(f.dataset)),
              !.dataset = @ \o result_from_one_layer_deeper,
              !.child = @ + 1,
              !.pc = IF f.child + 1 > Len(f.data.items) THEN "fallback" ELSE "children"]

\* line 122
CanBorrow(f) ==
    Len(f.dataset) - Len(f.incomplete_indexes) >= f.recommendation_amount

\* line 124 choosing as line 128 does
PeerChoicesFromAll(dataset, original_dataset) ==
    {[source |-> -1, entry |-> original_dataset[i]] : i \in DOMAIN original_dataset}

\* line 124: random.choice(random.choice(dataset)), with the list it came from
PeerChoices(dataset, original_dataset) ==
    UNION {{[source |-> s - 1, entry |-> dataset[s][e]] : e \in DOMAIN dataset[s]}
           : s \in DOMAIN dataset}

\* line 128: random.choice(original_dataset)
GlobalChoices(original_dataset) ==
    {[source |-> -1, entry |-> original_dataset[i]] : i \in DOMAIN original_dataset}

\* lines 123 and 127 with a range that is always empty
RangeLeftNever(recommendation, amount) == FALSE

\* range(len(dataset[index]), recommendation_amount) is not empty (lines 123, 127)
RangeLeft(recommendation, amount) == Len(recommendation) < amount

\* line 134 without lines 132-133
ReturnedIndexesKept(able_to_complete_datapoints, incomplete_indexes) ==
    incomplete_indexes

\* lines 132-134
ReturnedIndexes(able_to_complete_datapoints, incomplete_indexes) ==
    IF able_to_complete_datapoints THEN <<>> ELSE incomplete_indexes

\* ----------------------------------------------------------- exporter
PyNone == [kind |-> "None", rows |-> <<>>]

\* lines 153-158: the row built for one recommendation
result_data(recommendation) ==
    Tail(recommendation[1]) \o [i \in DOMAIN recommendation |-> Field(recommendation[i], 0)]

\* lines 152-158: every result_data is built and dropped, and the function
\* ends without a return statement
content_filter_result_to_useful_SQL_dataset(data) ==
    LET built == [j \in DOMAIN data[1] |-> result_data(data[1][j])] IN
    PyNone

\* -------------------------------------------------------------- state
VARIABLES
    products,               \* line 161
    index_list,             \* line 162
    grouped,                \* line 162
    recommendation_amount,  \* the amount the outermost call is given
    stack,                  \* the calls of the recommender in progress
    recommendations,        \* line 163
    sql_dataset,            \* line 164
    picked,                 \* the random choice of the last append
    pc

vars == <<products, index_list, grouped, recommendation_amount, stack,
          recommendations, sql_dataset, picked, pc>>

NoPick == [branch |-> "none", index |-> 0, source |-> 0]

Top == stack[Len(stack)]

SetTop(f) == [stack EXCEPT ![Len(stack)] = f]

Init ==
    /\ \E in \in Inputs :
          /\ products = in.products
          /\ index_list = in.index_list
    /\ grouped = [kind |-> "dict", items |-> <<>>]
    /\ recommendation_amount = DefaultRecommendationAmount
    /\ stack = <<>>
    /\ recommendations = <<(<<>>), (<<>>)>>
    /\ sql_dataset = [kind |-> "unset", rows |-> <<>>]
    /\ picked = NoPick
    /\ pc = "start"

\* line 162, raising
GroupError ==
    /\ pc = "start"
    /\ GroupRaises(products, index_list)
    /\ pc' = "IndexError"
    /\ UNCHANGED <<products, index_list, grouped, recommendation_amount, stack,
                   recommendations, sql_dataset, picked>>

\* line 162, returning
Group ==
    /\ pc = "start"
    /\ ~GroupRaises(products, index_list)
    /\ grouped' = group_data_by_unique_identifiers(products, index_list)
    /\ pc' = "grouped"
    /\ UNCHANGED <<products, index_list, recommendation_amount, stack,
                   recommendations, sql_dataset, picked>>

\* line 163: the outermost call, for every amount a caller may ask
Recommend ==
    /\ pc = "grouped"
    /\ \E amount \in 1..MaxAmount :
          /\ recommendation_amount' = amount
          /\ stack' = <<NewFrame(grouped, 0, amount)>>
    /\ pc' = "recommending"
    /\ UNCHANGED <<products, index_list, grouped, recommendations, sql_dataset, picked>>

\* lines 114-119 for a v that is a list: the call returns at once (136-139)
LeafCall ==
    /\ pc = "recommending"
    /\ Top.pc = "children"
    /\ LET v == Top.data.items[Top.child].value IN
       /\ v.kind = "list"
       /\ \E r \in LeafResult(v.items, PassedAmount(Top.recommendation_amount)) :
             stack' = SetTop(Merge(Top, r[1], r[2]))
    /\ picked' = NoPick
    /\ UNCHANGED <<products, index_list, grouped, recommendation_amount,
                   recommendations, sql_dataset, pc>>

\* line 115 for a v that is a dict: the call starts
DictCall ==
    /\ pc = "recommending"
    /\ Top.pc = "children"
    /\ LET v == Top.data.items[Top.child].value IN
       /\ v.kind = "dict"
       /\ stack' = Append(stack, NewFrame(v, Top.current_level + 1,
                                          PassedAmount(Top.recommendation_amount)))
    /\ picked' = NoPick
    /\ UNCHANGED <<products, index_list, grouped, recommendation_amount,
                   recommendations, sql_dataset, pc>>

\* the list the loop of line 121 is at
Current(f) == f.dataset[f.incomplete_indexes[f.pos] + 1]

\* lines 125 and 128 inserting at the front
PrependTo(f, entry) ==
    [f EXCEPT !.dataset[f.incomplete_indexes[f.pos] + 1] = <<entry>> \o @]

\* lines 125 and 128: dataset[index].append(...)
AppendTo(f, entry) ==
    [f EXCEPT !.dataset[f.incomplete_indexes[f.pos] + 1] = Append(@, entry)]

\* lines 122-125: one append of the inner loop
PeerBorrow ==
    /\ pc = "recommending"
    /\ Top.pc = "fallback"
    /\ Top.pos <= Len(Top.incomplete_indexes)
    /\ CanBorrow(Top)
    /\ RangeLeft(Current(Top), Top.recommendation_amount)
    /\ \E c \in PeerChoices(Top.dataset, products) :
          /\ stack' = SetTop(AppendTo(Top, c.entry))
          /\ picked' = [branch |-> "peer", index |-> Top.incomplete_indexes[Top.pos],
                        source |-> c.source]
    /\ UNCHANGED <<products, index_list, grouped, recommendation_amount,
                   recommendations, sql_dataset, pc>>

\* lines 126-128: one append of the inner loop
GlobalRandom ==
    /\ pc = "recommending"
    /\ Top.pc = "fallback"
    /\ Top.pos <= Len(Top.incomplete_indexes)
    /\ ~CanBorrow(Top)
    /\ Top.current_level = 0
    /\ RangeLeft(Current(Top), Top.recommendation_amount)
    /\ \E c \in GlobalChoices(products) :
          /\ stack' = SetTop(AppendTo(Top, c.entry))
          /\ picked' = [branch |-> "global", index |-> Top.incomplete_indexes[Top.pos],
                        source |-> c.source]
    /\ UNCHANGED <<products, index_list, grouped, recommendation_amount,
                   recommendations, sql_dataset, pc>>

\* lines 121-128: the inner loop is over, the outer loop takes the next index
NextIndex ==
    /\ pc = "recommending"
    /\ Top.pc = "fallback"
    /\ Top.pos <= Len(Top.incomplete_indexes)
    /\ (IF CanBorrow(Top) THEN TRUE ELSE Top.current_level = 0)
    /\ ~RangeLeft(Current(Top), Top.recommendation_amount)
    /\ stack' = SetTop([Top EXCEPT !.pos = @ + 1])
    /\ picked' = NoPick
    /\ UNCHANGED <<products, index_list, grouped, recommendation_amount,
                   recommendations, sql_dataset, pc>>

\* lines 129-131
Defer ==
    /\ pc = "recommending"
    /\ Top.pc = "fallback"
    /\ Top.pos <= Len(Top.incomplete_indexes)
    /\ ~CanBorrow(Top)
    /\ Top.current_level # 0
    /\ stack' = SetTop([Top EXCEPT !.able_to_complete_datapoints = FALSE, !.pc = "return"])
    /\ picked' = NoPick
    /\ UNCHANGED <<products, index_list, grouped, recommendation_amount,
                   recommendations, sql_dataset, pc>>

\* the loop of line 121 has ended, by exhaustion or by break
AtReturn(f) ==
    IF f.pc = "fallback" THEN f.pos > Len(f.incomplete_indexes) ELSE f.pc = "return"

\* lines 132-134, then 116-119 in the caller
ReturnToCaller ==
    /\ pc = "recommending"
    /\ Len(stack) > 1
    /\ AtReturn(Top)
    /\ stack' = [SubSeq(stack, 1, Len(stack) - 1) EXCEPT ![Len(stack) - 1] =
                    Merge(@, Top.dataset,
                          ReturnedIndexes(Top.able_to_complete_datapoints,
                                          Top.incomplete_indexes))]
    /\ picked' = NoPick
    /\ UNCHANGED <<products, index_list, grouped, recommendation_amount,
                   recommendations, sql_dataset, pc>>

\* lines 132-134 of the outermost call, then the assignment of line 163
ReturnToModule ==
    /\ pc = "recommending"
    /\ Len(stack) = 1
    /\ AtReturn(Top)
    /\ recommendations' = <<Top.dataset,
                            ReturnedIndexes(Top.able_to_complete_datapoints,
                                            Top.incomplete_indexes)>>
    /\ stack' = <<>>
    /\ pc' = "recommended"
    /\ picked' = NoPick
    /\ UNCHANGED <<products, index_list, grouped, recommendation_amount, sql_dataset>>

\* line 164
Export ==
    /\ pc = "recommended"
    /\ sql_dataset' = content_filter_result_to_useful_SQL_dataset(recommendations)
    /\ pc' = "exported"
    /\ UNCHANGED <<products, index_list, grouped, recommendation_amount, stack,
                   recommendations, picked>>

Next ==
    \/ GroupError
    \/ Group
    \/ Recommend
    \/ LeafCall
    \/ DictCall
    \/ PeerBorrow
    \/ GlobalRandom
    \/ NextIndex
    \/ Defer
    \/ ReturnToCaller
    \/ ReturnToModule
    \/ Export

Spec == Init /\ [][Next]_vars

\* a step of the call of line 163
RecommenderStep ==
    \/ LeafCall
    \/ DictCall
    \/ PeerBorrow
    \/ GlobalRandom
    \/ NextIndex
    \/ Defer
    \/ ReturnToCaller
    \/ ReturnToModule

\* the call runs synchronously: while it has a step to take, it takes one
FairSpec == Spec /\ WF_vars(RecommenderStep)

\* ------------------------------------------------------------- claims
\* every recommendation alive, in the order of the lists of the grouped data:
\* those of the calls in progress, outermost first, or the returned ones
Slots ==
    IF pc \in {"recommended", "exported"}
    THEN recommendations[1]
    ELSE Concat([i \in DOMAIN stack |-> stack[i].dataset])

IsPrefix(s, t) == Len(s) <= Len(t) /\ SubSeq(t, 1, Len(s)) = s

Returned == pc \in {"recommended", "exported"}

\* C1 (quota guarantee): for a non-empty query result of at least
\* recommendation_amount rows and an index list of at least one index, every
\* recommendation the outermost call returns holds exactly recommendation_amount
\* products.
C1_QuotaGuarantee ==
    (Returned /\ Len(products) >= 1 /\ Len(index_list) >= 1
              /\ Len(products) >= recommendation_amount)
    => \A j \in DOMAIN recommendations[1] :
          Len(recommendations[1][j]) = recommendation_amount

\* C2 (termination guarantee): the outermost call, once made, returns, and the
\* incomplete indexes it returns are empty.
C2_OutermostReturnsEmpty ==
    (pc = "recommending") ~> (pc = "recommended" /\ Len(recommendations[2]) = 0)

\* the outermost call has returned no incomplete index although some
\* recommendation was filled by a fallback
C2_Witness ==
    /\ pc = "recommended"
    /\ Len(recommendations[2]) = 0
    /\ \E j \in DOMAIN recommendations[1] :
          Len(recommendations[1][j]) > Len(LeavesOf(grouped)[j])

\* C3 as stated (degenerate dataset): with fewer rows than recommendation_amount,
\* every returned recommendation holds exactly min(recommendation_amount, number
\* of rows) products.
C3_FrozenAtDatasetSize ==
    (Returned /\ Len(products) < recommendation_amount)
    => \A j \in DOMAIN recommendations[1] :
          Len(recommendations[1][j]) = Min(recommendation_amount, Len(products))

\* C3 as amended: with fewer rows than recommendation_amount, when the loop of
\* the outermost call ends every recommendation that reached it incomplete
\* holds exactly recommendation_amount products, and every other one the
\* default amount the nested calls completed it with.
C3_FilledToAmount ==
    (pc = "recommending" /\ Len(stack) = 1 /\ AtReturn(Top)
        /\ Len(products) < recommendation_amount)
    => \A j \in DOMAIN Top.dataset :
          IF j - 1 \in Range(Top.incomplete_indexes)
          THEN Len(Top.dataset[j]) = recommendation_amount
          ELSE Len(Top.dataset[j]) = DefaultRecommendationAmount

\* the loop of the outermost call has ended with a recommendation longer than
\* the whole query result
C3_Witness ==
    /\ pc = "recommending" /\ Len(stack) = 1 /\ AtReturn(Top)
    /\ Len(products) < recommendation_amount
    /\ \E j \in DOMAIN Top.dataset :
          /\ j - 1 \in Range(Top.incomplete_indexes)
          /\ Len(Top.dataset[j]) > Len(products)

\* C4 (export shape): the exporter returns one row per recommendation, in
\* order: the attributes of its first product, then the id of every product.
C4_ExportShape ==
    pc = "exported"
    => /\ sql_dataset.kind = "list"
       /\ sql_dataset.rows =
             [j \in DOMAIN recommendations[1] |->
                 Tail(recommendations[1][j][1])
                 \o [i \in DOMAIN recommendations[1][j] |-> recommendations[1][j][i][1]]]

\* C5 (priority preservation): a product appended by peer borrowing in a call
\* at level L agrees with the products of the list the recommendation belongs
\* to on index_list[0..L-1], and is a product of the grouped data of that call.
C5_PriorityPreservation ==
    picked.branch = "peer"
    => LET leaf == LeavesOf(Top.data)[picked.index + 1]
           entry == Top.dataset[picked.index + 1][Len(Top.dataset[picked.index + 1])]
       IN  /\ \A p \in 1..Top.current_level :
                 Field(entry, index_list[p]) = Field(leaf[1], index_list[p])
           /\ entry \in Range(Concat(LeavesOf(Top.data)))

\* a nested call has just borrowed while the query result holds products
\* outside its grouped data
C5_Witness ==
    /\ picked.branch = "peer"
    /\ Top.current_level >= 1
    /\ \E i \in DOMAIN products : products[i] \notin Range(Concat(LeavesOf(Top.data)))

\* C6 (partition totality): for an index list of at least one index, the lists
\* of the structure the grouper returns hold every row of the query result
\* exactly as often as the query result does, and the query result itself is
\* as it was.
C6_PartitionTotality ==
    [][(pc = "start" /\ pc' = "grouped" /\ Len(index_list) >= 1)
       => /\ BagOf(Concat(LeavesOf(grouped'))) = BagOf(products)
          /\ \A i, j \in DOMAIN LeavesOf(grouped') :
                i # j => Range(LeavesOf(grouped')[i]) \cap Range(LeavesOf(grouped')[j]) = {}
          /\ products' = products]_vars

\* the grouper has returned several lists, one of them of several rows
C6_Witness ==
    /\ pc = "grouped"
    /\ Len(index_list) >= 2
    /\ Len(LeavesOf(grouped)) >= 2
    /\ \E j \in DOMAIN LeavesOf(grouped) : Len(LeavesOf(grouped)[j]) >= 2

PathOutOfRange == \E p \in DOMAIN index_list : index_list[p] >= NumFields

\* C7 as stated (fail fast): an empty query result, an empty index list or an
\* index out of range ends the run in an error; no structure is returned.
C7_FailFast ==
    (Len(products) = 0 \/ Len(index_list) = 0 \/ PathOutOfRange)
    => pc \in {"start", "IndexError"}

\* C7 as amended: with a non-empty query result, an empty index list or an
\* index out of range ends the run with the IndexError the grouper raises, and
\* nothing is returned; an empty query result raises nothing, whatever the
\* index list: the grouper returns an empty dict and the recommender no
\* recommendation and no incomplete index.
C7_NonEmptyRaises ==
    /\ (Len(products) > 0 /\ (Len(index_list) = 0 \/ PathOutOfRange))
       => pc \in {"start", "IndexError"}
    /\ Len(products) = 0
       => /\ pc # "IndexError"
          /\ Len(grouped.items) = 0
          /\ Returned => (Len(recommendations[1]) = 0 /\ Len(recommendations[2]) = 0)

\* the grouper has raised on its second index, the first being in range
C7_Witness ==
    /\ pc = "IndexError"
    /\ Len(index_list) >= 2
    /\ index_list[1] < NumFields

\* C8 (peer-borrowing source): a product appended by peer borrowing was taken
\* from another recommendation of the call, one that holds
\* recommendation_amount products already.
C8_BorrowFromCompleteSibling ==
    picked.branch = "peer"
    => /\ picked.source # picked.index
       /\ Len(Top.dataset[picked.source + 1]) >= Top.recommendation_amount

ShortSlots(f) ==
    {j - 1 : j \in {i \in DOMAIN f.dataset : Len(f.dataset[i]) < f.recommendation_amount}}

Deferring(f) ==
    f.current_level > 0 /\ f.pc \in {"fallback", "return"} /\ ~CanBorrow(f)

\* C9 (defer fallback and index remapping): while a call at level > 0 that
\* cannot borrow is in or past its fallback loop no recommendation changes; the
\* indexes it returns are in increasing order those of the recommendations
\* holding fewer products than its recommendation_amount; and its caller gets
\* them shifted by the number of recommendations it held before.
C9_DeferAndRemap ==
    [][(pc = "recommending" /\ Deferring(Top))
       => /\ Slots' = Slots
          /\ AtReturn(Top) =>
                LET ret == ReturnedIndexes(Top.able_to_complete_datapoints,
                                           Top.incomplete_indexes)
                    caller == stack[Len(stack) - 1]
                IN  /\ Range(ret) = ShortSlots(Top)
                    /\ \A i, j \in DOMAIN ret : i < j => ret[i] < ret[j]
                    /\ Len(stack') = Len(stack) - 1
                    /\ stack'[Len(stack')].dataset = caller.dataset \o Top.dataset
                    /\ stack'[Len(stack')].incomplete_indexes =
                          caller.incomplete_indexes
                          \o [i \in DOMAIN ret |-> ret[i] + Len(caller.dataset)]]_vars

\* a call at level > 0 is about to return, deferred, an index it shifted
C9_Witness ==
    /\ pc = "recommending"
    /\ Deferring(Top)
    /\ Top.pc = "return"
    /\ \E i \in DOMAIN Top.incomplete_indexes : Top.incomplete_indexes[i] > 0

\* the amount the call that made the last recommendation ran with
LeafAmount == PassedAmount(Top.recommendation_amount)

\* C10 (primary selection is kept): a recommendation starts as min(n, amount of
\* its call) products at distinct positions of its list of n products; a step
\* only appends, and only to a recommendation shorter than the
\* recommendation_amount of the call that appends; so the first product of a
\* recommendation is one of its own list.
C10_PrimaryKept ==
    [][/\ Len(Slots') >= Len(Slots)
       /\ \A j \in DOMAIN Slots :
             /\ IsPrefix(Slots[j], Slots'[j])
             /\ Slots'[j] # Slots[j]
                => (pc = "recommending" /\ Len(Slots[j]) < Top.recommendation_amount
                    /\ Len(Slots'[j]) = Len(Slots[j]) + 1)
       /\ Len(Slots') > Len(Slots)
          => LET leaves == LeavesOf(grouped) IN
             \A j \in DOMAIN Slots' \ DOMAIN Slots :
                /\ Len(Slots'[j]) = Min(Len(leaves[j]), LeafAmount)
                /\ BagOf(Slots'[j]) \sqsubseteq BagOf(leaves[j])
       /\ (pc = "recommending" /\ pc' = "recommended")
          => LET leaves == LeavesOf(grouped) IN
             \A j \in DOMAIN recommendations'[1] :
                recommendations'[1][j][1] \in Range(leaves[j])]_vars

\* a recommendation made from a list of several products has been returned
\* with products appended by a fallback
C10_Witness ==
    /\ pc = "recommended"
    /\ \E j \in DOMAIN recommendations[1] :
          /\ Len(recommendations[1][j]) > Len(LeavesOf(grouped)[j])
          /\ Len(LeavesOf(grouped)[j]) >= 2

====
